---- MODULE Spec2Model ----
(***************************************************************************)
(* rag_tracker: a daily batch job that fetches papers, keeps those newer   *)
(* than the watermark stored in data/last_email.txt, enriches each from    *)
(* its HTML page, classifies and sorts them, writes one report per         *)
(* publication date and emails the reports, writing the watermark after    *)
(* each report that was sent.                                              *)
(*                                                                         *)
(* Conventions of the model                                                *)
(*   - a Python str is a sequence of code points (65 = "A", 97 = "a");     *)
(*   - an optional value (None, a missing node) is a sequence of length 0  *)
(*     or 1;                                                               *)
(*   - a time stamp is a number of hours, in UTC, counted from 00:00 of    *)
(*     day 0; a date (YYYY-MM-DD) is the number of its day. Fixed-width    *)
(*     date strings compare as their day numbers do;                       *)
(*   - the local files are assumed writable: open(..., 'w') and write() of *)
(*     last_email.txt do not fail.                                         *)
(*                                                                         *)
(* Specifications                                                          *)
(*   Spec       main: the runs of run_daily_update and the sleeps between  *)
(*   PageSpec   one parsed page through the extractors and the classifier  *)
(*   ExcelSpec  _update_excel called with one batch after the other        *)
(***************************************************************************)
EXTENDS Integers, Sequences, FiniteSets, TLC

(***************************************************************************)
(* Python str and list helpers                                             *)
(***************************************************************************)

\* code points that str.strip() removes: tab, LF, VT, FF, CR, space
Whitespace == {9, 10, 11, 12, 13, 32}

\* str.lower() on one code point (ASCII letters)
LowerChar(c) == IF c \in 65..90 THEN c + 32 ELSE c

\* str.lower()
Lower(s) == [i \in 1..Len(s) |-> LowerChar(s[i])]

RECURSIVE LStripChars(_, _)
\* str.lstrip(chars)
LStripChars(s, chars) ==
    IF s # <<>> /\ Head(s) \in chars THEN LStripChars(Tail(s), chars) ELSE s

RECURSIVE RStripChars(_, _)
\* str.rstrip(chars)
RStripChars(s, chars) ==
    IF s # <<>> /\ s[Len(s)] \in chars
    THEN RStripChars(SubSeq(s, 1, Len(s) - 1), chars)
    ELSE s

\* str.strip(): remove leading and trailing whitespace
Strip(s) == RStripChars(LStripChars(s, Whitespace), Whitespace)

\* str.strip(','): remove leading and trailing commas
StripCommas(s) == RStripChars(LStripChars(s, {44}), {44})

\* str.isdigit(): non-empty and every code point a decimal digit
IsDigit(s) == s # <<>> /\ \A i \in 1..Len(s) : s[i] \in 48..57

\* `sub in s` on str: sub occurs in s as a contiguous run
Contains(s, sub) ==
    \E i \in 0..(Len(s) - Len(sub)) :
        \A j \in 1..Len(sub) : s[i + j] = sub[j]

RECURSIVE Join(_, _)
\* sep.join(parts)
Join(sep, parts) ==
    IF parts = <<>> THEN <<>>
    ELSE IF Len(parts) = 1 THEN parts[1]
    ELSE parts[1] \o sep \o Join(sep, Tail(parts))

RECURSIVE Split(_, _)
\* s.split(sep) for a one-code-point separator: always at least one piece
Split(s, sep) ==
    IF \A i \in 1..Len(s) : s[i] # sep THEN <<s>>
    ELSE LET k == CHOOSE i \in 1..Len(s) :
                      s[i] = sep /\ \A j \in 1..(i - 1) : s[j] # sep
         IN  <<SubSeq(s, 1, k - 1)>> \o Split(SubSeq(s, k + 1, Len(s)), sep)

\* s < t on str: lexicographic by code point, a proper prefix is smaller
StrLess(s, t) ==
    \E k \in 1..(Len(t)) :
        /\ \A j \in 1..(k - 1) : j <= Len(s) /\ s[j] = t[j]
        /\ \/ k = Len(s) + 1
           \/ k <= Len(s) /\ s[k] < t[k]

StrLeq(s, t) == s = t \/ StrLess(s, t)

RECURSIVE SeqSum(_)
SeqSum(xs) == IF xs = <<>> THEN 0 ELSE Head(xs) + SeqSum(Tail(xs))

\* the set of the elements of a list
Range(xs) == {xs[i] : i \in 1..Len(xs)}

\* every list that holds each element of S exactly once
Orderings(S) ==
    {o \in [1..Cardinality(S) -> S] : \A x \in S : \E i \in DOMAIN o : o[i] = x}

(***************************************************************************)
(* Configuration                                                           *)
(***************************************************************************)

\* Config.major_orgs, in order:
\*   "Google"
\*   "DeepMind"
\*   "Anthropic"
\*   "OpenAI"
\*   "Microsoft"
\*   "Meta"
\*   "Facebook"
\*   "Amazon"
\*   "Apple"
\*   "IBM"
\*   "NVIDIA"
\*   "Intel"
\*   "Baidu"
\*   "Tencent"
\*   "Alibaba"
\*   "Huawei"
\*   "Peking University"
\*   "Tsinghua University"
major_orgs ==
<<
    <<71, 111, 111, 103, 108, 101>>,
    <<68, 101, 101, 112, 77, 105, 110, 100>>,
    <<65, 110, 116, 104, 114, 111, 112, 105, 99>>,
    <<79, 112, 101, 110, 65, 73>>,
    <<77, 105, 99, 114, 111, 115, 111, 102, 116>>,
    <<77, 101, 116, 97>>,
    <<70, 97, 99, 101, 98, 111, 111, 107>>,
    <<65, 109, 97, 122, 111, 110>>,
    <<65, 112, 112, 108, 101>>,
    <<73, 66, 77>>,
    <<78, 86, 73, 68, 73, 65>>,
    <<73, 110, 116, 101, 108>>,
    <<66, 97, 105, 100, 117>>,
    <<84, 101, 110, 99, 101, 110, 116>>,
    <<65, 108, 105, 98, 97, 98, 97>>,
    <<72, 117, 97, 119, 101, 105>>,
    <<80, 101, 107, 105, 110, 103, 32, 85, 110, 105, 118, 101, 114, 115, 105, 116, 121>>,
    <<84, 115, 105, 110, 103, 104, 117, 97, 32, 85, 110, 105, 118, 101, 114, 115, 105, 116, 121>>
>>

\* the survey terms of _check_if_survey, in order:
\*   "survey"
\*   "review"
\*   "overview"
\*   "systematic"
survey_terms ==
<<
    <<115, 117, 114, 118, 101, 121>>,
    <<114, 101, 118, 105, 101, 119>>,
    <<111, 118, 101, 114, 118, 105, 101, 119>>,
    <<115, 121, 115, 116, 101, 109, 97, 116, 105, 99>>
>>

(***************************************************************************)
(* The parsed HTML page (soup), as far as the extractors look at it        *)
(*   has_author_block  a div.ltx_authors exists                            *)
(*   breaks            one entry per br.ltx_break of the block, in order:  *)
(*                     sup  = the sup.ltx_sup that find_next reaches       *)
(*                            (<<>> if none), with its text and with       *)
(*                     next = its next sibling when that is a string       *)
(*   person            the children of span.ltx_personname (<<>> if the    *)
(*                     block has no such span): nodes with tag "text"      *)
(*                     (a string), "sup" or another tag, their class       *)
(*                     names and their text                                *)
(*   kw_div            the children of div.ltx_keywords (<<>> if absent)   *)
(*   meta_kw           meta[name=keywords]: its content attribute,         *)
(*                     <<>> if the attribute is missing                    *)
(***************************************************************************)

RECURSIVE MapGet(_, _, _)
\* dict.get(key, default) on a dict kept as the list of its assignments
MapGet(map, key, default) ==
    IF map = <<>> THEN default
    ELSE IF map[Len(map)].key = key THEN map[Len(map)].value
    ELSE MapGet(SubSeq(map, 1, Len(map) - 1), key, default)

RECURSIVE CollectAffiliations(_, _)
\* the first loop of _extract_author_info: marker -> affiliation text
CollectAffiliations(breaks, map) ==
    IF breaks = <<>> THEN map
    ELSE LET br == Head(breaks)
             found == /\ br.sup # <<>>
                      /\ br.sup[1].next # <<>>
                      /\ Strip(br.sup[1].next[1]) # <<>>
         IN  CollectAffiliations(
                 Tail(breaks),
                 IF found
                 THEN Append(map, [key   |-> Strip(br.sup[1].text),
                                   value |-> Strip(br.sup[1].next[1])])
                 ELSE map)

\* AuthorInfo with the markers that the map does not hold left out of
\* affiliations
AuthorInfo_DropMissing(name, affs, map) ==
    LET known == SelectSeq(affs, LAMBDA num : \E j \in 1..Len(map) : map[j].key = num)
    IN  [name         |-> Strip(name),
         aff_numbers  |-> affs,
         affiliations |-> [i \in 1..Len(known) |-> MapGet(map, known[i], <<>>)]]
\* the author_info dict built at lines 165-170 and 183-188 (email is always '')
AuthorInfo(name, affs, map) ==
    [name         |-> Strip(name),
     aff_numbers  |-> affs,
     affiliations |-> [i \in 1..Len(affs) |-> MapGet(map, affs[i], <<>>)]]

RECURSIVE WalkPerson(_, _, _, _, _)
\* the loop over person_span.children with its three running variables,
\* then "Add the last author"
WalkPerson(children, map, authors, current_name, current_affs) ==
    IF children = <<>>
    THEN IF current_name # <<>>
         THEN Append(authors, AuthorInfo(current_name, current_affs, map))
         ELSE authors
    ELSE LET element == Head(children)
             text == StripCommas(Strip(element.text))
             num == Strip(element.text)
         IN  IF element.tag = "text"
             THEN IF text # <<>>
                  THEN IF current_name # <<>>
                       THEN WalkPerson(Tail(children), map,
                                Append(authors,
                                       AuthorInfo(current_name, current_affs, map)),
                                text, <<>>)
                       ELSE WalkPerson(Tail(children), map, authors,
                                text, current_affs)
                  ELSE WalkPerson(Tail(children), map, authors,
                           current_name, current_affs)
             ELSE IF element.tag = "sup" /\ "ltx_sup" \in element.class
                  THEN WalkPerson(Tail(children), map, authors, current_name,
                           IF IsDigit(num) THEN Append(current_affs, num)
                                           ELSE current_affs)
                  ELSE WalkPerson(Tail(children), map, authors,
                           current_name, current_affs)

\* _extract_author_info(soup): the list of authors (paper_details is not used
\* by the caller)
extract_author_info(soup) ==
    IF ~soup.has_author_block THEN <<>>
    ELSE LET affiliations_map == CollectAffiliations(soup.breaks, <<>>)
         IN  IF soup.person = <<>> THEN <<>>
             ELSE WalkPerson(soup.person[1], affiliations_map, <<>>, <<>>, <<>>)

RECURSIVE GetText(_)
\* kw_div.get_text() after every h6 and strong child was decomposed
GetText(children) ==
    IF children = <<>> THEN <<>>
    ELSE (IF Head(children).tag \in {"h6", "strong"} THEN <<>>
          ELSE Head(children).text) \o GetText(Tail(children))

\* [k.strip() for k in text.split(',')]
SplitKeywords(text) ==
    LET parts == Split(text, 44) IN [i \in 1..Len(parts) |-> Strip(parts[i])]

\* _extract_keywords(soup)
extract_keywords(soup) ==
    LET from_div == IF soup.kw_div # <<>>
                    THEN SplitKeywords(GetText(soup.kw_div[1]))
                    ELSE <<>>
        keywords == IF from_div = <<>>
                    THEN IF soup.meta_kw # <<>>
                         THEN SplitKeywords(IF soup.meta_kw[1].content # <<>>
                                            THEN soup.meta_kw[1].content[1]
                                            ELSE <<>>)
                         ELSE <<>>
                    ELSE from_div
    IN  SelectSeq(keywords, LAMBDA k : k # <<>>)

(***************************************************************************)
(* Classifier                                                              *)
(***************************************************************************)

\* IsMajorOrg without the two lower() calls
IsMajorOrg_CaseSensitive(affiliations) ==
    LET text == Join(<<32>>, affiliations)
    IN  \E i \in 1..Len(major_orgs) : Contains(text, major_orgs[i])
\* any(org.lower() in ' '.join(affiliations).lower() for org in major_orgs)
IsMajorOrg(affiliations) ==
    LET text == Lower(Join(<<32>>, affiliations))
    IN  \E i \in 1..Len(major_orgs) : Contains(text, Lower(major_orgs[i]))

\* _check_if_survey(title, keywords)
check_if_survey(title, keywords) ==
    LET text == Lower(title \o <<32>> \o Join(<<32>>, keywords))
    IN  \E i \in 1..Len(survey_terms) : Contains(text, survey_terms[i])

RECURSIVE AllAffiliations(_)
\* the set all_affiliations built from authors_info (lines 73-75)
AllAffiliations(authors_info) ==
    IF authors_info = <<>> THEN {}
    ELSE Range(Head(authors_info).affiliations)
             \cup AllAffiliations(Tail(authors_info))

(***************************************************************************)
(* Bounds and fixtures                                                     *)
(***************************************************************************)

\* main() runs run_daily_update at most MaxRuns times in a checked behaviour
MaxRuns == 2

\* 24 hours: the length of a calendar day and of pd.Timedelta(days=1)
HoursPerDay == 24

\* time.sleep(24 * 60 * 60) and time.sleep(60 * 60), in hours
DAY_SLEEP == 24
ERROR_SLEEP == 1

MAX_RETRIES == 5

\* the hour of the first run: 10:00 UTC of day 1
FirstRun == HoursPerDay + 10

\* offsets of the machine's local time from UTC, in hours
TimeZones == {0 - 12, 0, 14}

\* titles
T_Zeta == <<90, 101, 116, 97>>
T_ASurvey == <<65, 32, 83, 117, 114, 118, 101, 121>>
T_beta == <<98, 101, 116, 97>>
T_Alpha == <<65, 108, 112, 104, 97>>

\* what the paper index holds: identifier, title, UTC publication hour
Catalog ==
    { [paper_id |-> 1, title |-> T_Zeta,    published |-> 20],
      [paper_id |-> 2, title |-> T_ASurvey, published |-> 24],
      [paper_id |-> 3, title |-> T_beta,    published |-> 27],
      [paper_id |-> 4, title |-> T_Alpha,   published |-> 40] }

Node(tag, class, text) == [tag |-> tag, class |-> class, text |-> text]

Sup(text, next) == [text |-> text, next |-> next]

\* a page without author block, keywords region or keywords meta tag
SoupPlain ==
    [has_author_block |-> FALSE, breaks |-> <<>>, person |-> <<>>,
     kw_div |-> <<>>, meta_kw |-> <<>>]

\* "Ann" 1 ", Bob" 1 2; 1 = " Google Research", 2 = "MIT";
\* keywords region: <h6>Keywords: </h6> "RAG, LLM"
SoupOrg ==
    [has_author_block |-> TRUE,
     breaks |-> << [sup |-> <<Sup(<<49>>, <<<<32, 71, 111, 111, 103, 108, 101, 32, 82, 101, 115, 101, 97, 114, 99, 104>>>>)>>],
                   [sup |-> <<Sup(<<50>>, <<<<77, 73, 84>>>>)>>] >>,
     person |-> << << Node("text", {}, <<65, 110, 110>>),
                      Node("sup", {"ltx_sup"}, <<49>>),
                      Node("text", {}, <<44, 32, 66, 111, 98>>),
                      Node("sup", {"ltx_sup"}, <<49>>),
                      Node("sup", {"ltx_sup"}, <<50>>) >> >>,
     kw_div |-> << << Node("h6", {}, <<75, 101, 121, 119, 111, 114, 100, 115, 58, 32>>),
                      Node("text", {}, <<82, 65, 71, 44, 32, 76, 76, 77>>) >> >>,
     meta_kw |-> <<>>]

\* one author "Cy" without markers; no keywords region;
\* <meta name="keywords" content="survey, x">
SoupSurvey ==
    [has_author_block |-> TRUE,
     breaks |-> <<>>,
     person |-> << << Node("text", {}, <<67, 121>>) >> >>,
     kw_div |-> <<>>,
     meta_kw |-> << [content |-> <<<<115, 117, 114, 118, 101, 121, 44, 32, 120>>>>] >>]

\* what requests.get and BeautifulSoup can do for one paper:
\*   fetch  "raise" = requests.get raises, "ok" = a response
\*   status the response's status_code
\*   parse  "raise" = BeautifulSoup or an extractor raises, "ok" = a soup
Response(fetch, status, parse, soup) ==
    [fetch |-> fetch, status |-> status, parse |-> parse, soup |-> soup]

Responses ==
    { Response("raise", 0, "ok", SoupPlain),
      Response("ok", 404, "ok", SoupPlain),
      Response("ok", 200, "raise", SoupPlain),
      Response("ok", 200, "ok", SoupPlain),
      Response("ok", 200, "ok", SoupOrg),
      Response("ok", 200, "ok", SoupSurvey) }

\* last_email.txt: missing, unreadable (open or read raises), or its text
\* after strip(): a date, '' or text that pd.to_datetime rejects
FileMissing == [kind |-> "missing", day |-> 0]
FileUnreadable == [kind |-> "unreadable", day |-> 0]
FileEmpty == [kind |-> "empty", day |-> 0]
FileGarbage == [kind |-> "garbage", day |-> 0]
FileDate(d) == [kind |-> "date", day |-> d]

(***************************************************************************)
(* arxiv_fetcher                                                           *)
(***************************************************************************)

\* the dict fetch_papers builds for one result (the fields copied through
\* to the outputs unread - authors, summary, urls, categories - are left out)
NewPaper(result) ==
    [paper_id     |-> result.paper_id,
     title        |-> result.title,
     date         |-> result.published \div HoursPerDay,
     date_dt      |-> result.published,
     authors_info |-> <<>>,
     keywords     |-> <<>>,
     affiliations |-> <<>>,
     is_org       |-> FALSE,
     is_survey    |-> FALSE]

RECURSIVE NewestFirst(_)
\* the results of the index, SubmittedDate descending
NewestFirst(results) ==
    IF results = {} THEN <<>>
    ELSE LET r == CHOOSE x \in results :
                      \A y \in results : y.published <= x.published
         IN  <<r>> \o NewestFirst(results \ {r})

\* fetch_papers when the index answers: everything published so far
fetch_papers(t) ==
    LET found == NewestFirst({r \in Catalog : r.published <= t})
    IN  [i \in 1..Len(found) |-> NewPaper(found[i])]

(***************************************************************************)
(* paper_processor                                                         *)
(***************************************************************************)

\* _get_last_email_date: pd.to_datetime('') is NaT and NaT.tz_localize is
\* NaT, so an empty file is returned as NaT, not replaced by the default
get_last_email_date(file, t) ==
    IF file.kind = "date" THEN [nat |-> FALSE, t |-> file.day * HoursPerDay]
    ELSE IF file.kind = "empty" THEN [nat |-> TRUE, t |-> 0]
    ELSE [nat |-> FALSE, t |-> t - HoursPerDay]

\* IsRecent with >= for >: a paper stamped exactly at the watermark is kept
IsRecent_Inclusive(paper, last) == paper.date_dt >= last

\* paper_date > last_processed_date
IsRecent(paper, last) == paper.date_dt > last

\* the Incremental Filter (lines 37-41)
FilterRecent(ps, last) == SelectSeq(ps, LAMBDA p : IsRecent(p, last))

\* the paper after "Initialize default metadata" (lines 52-56)
WithDefaults(paper) ==
    [paper EXCEPT !.authors_info = <<>>, !.keywords = <<>>,
                  !.affiliations = <<>>, !.is_org = FALSE, !.is_survey = FALSE]

\* org_count += 1, survey_count += 1
CountIf(flag) == IF flag THEN 1 ELSE 0

\* Classified with the survey count in an elif of the organization count
Classified_ElifSurvey(paper, soup, aff_list) ==
    LET authors_info == extract_author_info(soup)
        keywords == extract_keywords(soup)
        p1 == IF authors_info # <<>>
              THEN [paper EXCEPT !.authors_info = authors_info,
                                 !.affiliations = aff_list]
              ELSE paper
        p2 == IF keywords # <<>> THEN [p1 EXCEPT !.keywords = keywords] ELSE p1
        is_org == IsMajorOrg(p2.affiliations)
        is_survey == check_if_survey(paper.title, keywords)
    IN  [paper  |-> [p2 EXCEPT !.is_org = is_org, !.is_survey = is_survey],
         org    |-> CountIf(is_org),
         survey |-> IF is_org THEN 0 ELSE CountIf(is_survey)]

\* lines 66-90 for one ordering of list(all_affiliations): the paper and
\* what was added to org_count and survey_count
Classified(paper, soup, aff_list) ==
    LET authors_info == extract_author_info(soup)
        keywords == extract_keywords(soup)
        p1 == IF authors_info # <<>>
              THEN [paper EXCEPT !.authors_info = authors_info,
                                 !.affiliations = aff_list]
              ELSE paper
        p2 == IF keywords # <<>> THEN [p1 EXCEPT !.keywords = keywords] ELSE p1
        is_org == IsMajorOrg(p2.affiliations)
        is_survey == check_if_survey(paper.title, keywords)
    IN  [paper  |-> [p2 EXCEPT !.is_org = is_org, !.is_survey = is_survey],
         org    |-> CountIf(is_org),
         survey |-> CountIf(is_survey)]

\* the try block of the loop over current_papers left after the defaults
Skipped(paper) == [paper |-> paper, org |-> 0, survey |-> 0]

\* requests.get raised, the status is not 200, or parsing raised
Failed(resp) == resp.fetch = "raise" \/ resp.status # 200 \/ resp.parse = "raise"

\* the body of the loop over current_papers for one paper: the outcomes it
\* can have (list(set) has no fixed order, so one per ordering)
Enriched(paper, resp) ==
    LET p0 == WithDefaults(paper)
    IN  IF Failed(resp)
        THEN {Skipped(p0)}
        ELSE {Classified(p0, resp.soup, o) :
                o \in Orderings(AllAffiliations(extract_author_info(resp.soup)))}

\* KeyLess for the key (is_org, is_survey, title), the negations forgotten
KeyLess_Ascending(x, y) ==
    \/ ~x.is_org /\ y.is_org
    \/ x.is_org = y.is_org /\ ~x.is_survey /\ y.is_survey
    \/ x.is_org = y.is_org /\ x.is_survey = y.is_survey
         /\ StrLess(x.title, y.title)

\* x sorts before y under key (-is_org, -is_survey, title)
KeyLess(x, y) ==
    \/ x.is_org /\ ~y.is_org
    \/ x.is_org = y.is_org /\ x.is_survey /\ ~y.is_survey
    \/ x.is_org = y.is_org /\ x.is_survey = y.is_survey
         /\ StrLess(x.title, y.title)

RECURSIVE InsertByKey(_, _)
\* x put into the sorted list after every element that does not sort after it
InsertByKey(x, sorted) ==
    IF sorted = <<>> THEN <<x>>
    ELSE IF KeyLess(x, Head(sorted)) THEN <<x>> \o sorted
    ELSE <<Head(sorted)>> \o InsertByKey(x, Tail(sorted))

RECURSIVE SortPapers(_, _)
\* list.sort(key=...): stable
SortPapers(ps, sorted) ==
    IF ps = <<>> THEN sorted
    ELSE SortPapers(Tail(ps), InsertByKey(Head(ps), sorted))

RECURSIVE ProcessLoop_DropFailed(_, _, _)
\* ProcessLoop with `continue` in the failure paths: the paper is not appended
ProcessLoop_DropFailed(current, resp, acc) ==
    IF current = <<>> THEN {acc}
    ELSE IF Failed(Head(resp))
    THEN ProcessLoop_DropFailed(Tail(current), Tail(resp), acc)
    ELSE UNION { ProcessLoop_DropFailed(Tail(current), Tail(resp),
                     [processed_papers |-> Append(acc.processed_papers, e.paper),
                      org_count    |-> acc.org_count + e.org,
                      survey_count |-> acc.survey_count + e.survey])
                 : e \in Enriched(Head(current), Head(resp)) }

RECURSIVE ProcessLoop(_, _, _)
\* the loop of lines 49-100: every (processed_papers, org_count,
\* survey_count) it can end with, for the responses resp
ProcessLoop(current, resp, acc) ==
    IF current = <<>> THEN {acc}
    ELSE UNION { ProcessLoop(Tail(current), Tail(resp),
                     [processed_papers |-> Append(acc.processed_papers, e.paper),
                      org_count    |-> acc.org_count + e.org,
                      survey_count |-> acc.survey_count + e.survey])
                 : e \in Enriched(Head(current), Head(resp)) }

\* process_papers after the filter: the sorted list and the two counts
ProcessResults(current, resp) ==
    { [r EXCEPT !.processed_papers = SortPapers(r.processed_papers, <<>>)] :
        r \in ProcessLoop(current, resp,
                  [processed_papers |-> <<>>, org_count |-> 0, survey_count |-> 0]) }

(***************************************************************************)
(* Pages for the extractors and the classifier                             *)
(***************************************************************************)

\* the longest list of children of span.ltx_personname tried
MaxChildren == 3

\* every list of at most n elements of S
SeqsUpTo(S, n) == UNION {[1..k -> S] : k \in 0..n}

\* children of span.ltx_personname:
\*   "Ann"   ", Bob"   ", " (nothing left after the two strips)
\*   <sup class="ltx_sup">1</sup>   <sup class="ltx_sup"> 2 </sup>
\*   <sup class="ltx_sup">*</sup>   <sup>1</sup>   <span>x</span>
PersonNodes ==
    { Node("text", {}, <<65, 110, 110>>),
      Node("text", {}, <<44, 32, 66, 111, 98>>),
      Node("text", {}, <<44, 32>>),
      Node("sup", {"ltx_sup"}, <<49>>),
      Node("sup", {"ltx_sup"}, <<32, 50, 32>>),
      Node("sup", {"ltx_sup"}, <<42>>),
      Node("sup", {}, <<49>>),
      Node("span", {}, <<120>>) }

\* the br.ltx_break elements of the author block:
\*   none;
\*   1 = " Google Research";
\*   1 = "MIT", a br without a sup after it, 2 followed by a tag, 2 = "  ",
\*   1 = "IBM" (a later assignment of marker 1)
BreakLists ==
    { <<>>,
      << [sup |-> <<Sup(<<49>>, <<<<32, 71, 111, 111, 103, 108, 101, 32, 82, 101, 115, 101, 97, 114, 99, 104>>>>)>>] >>,
      << [sup |-> <<Sup(<<49>>, <<<<77, 73, 84>>>>)>>],
         [sup |-> <<>>],
         [sup |-> <<Sup(<<50>>, <<>>)>>],
         [sup |-> <<Sup(<<50>>, <<<<32, 32>>>>)>>],
         [sup |-> <<Sup(<<32, 49>>, <<<<73, 66, 77>>>>)>>] >> }

\* pages that differ in the author block only
PersonPages ==
    { [has_author_block |-> TRUE, breaks |-> b, person |-> <<c>>,
       kw_div |-> <<>>, meta_kw |-> <<>>] :
        c \in SeqsUpTo(PersonNodes, MaxChildren), b \in BreakLists }

\* div.ltx_keywords: absent; without children; <h6>Keywords:</h6> only;
\* <h6>Keywords:</h6> "RAG, LLM"; " , "; <strong>Keywords</strong> " a,,b "
KeywordRegions ==
    { <<>>,
      << <<>> >>,
      << << Node("h6", {}, <<75, 101, 121, 119, 111, 114, 100, 115, 58>>) >> >>,
      << << Node("h6", {}, <<75, 101, 121, 119, 111, 114, 100, 115, 58>>), Node("text", {}, <<82, 65, 71, 44, 32, 76, 76, 77>>) >> >>,
      << << Node("text", {}, <<32, 44, 32>>) >> >>,
      << << Node("strong", {}, <<75, 101, 121, 119, 111, 114, 100, 115>>), Node("text", {}, <<32, 97, 44, 44, 98, 32>>) >> >> }

\* meta[name=keywords]: absent; without content attribute; content "";
\* content " , "; content "x, survey"
KeywordMetas ==
    { <<>>,
      << [content |-> <<>>] >>,
      << [content |-> << <<>> >>] >>,
      << [content |-> << <<32, 44, 32>> >>] >>,
      << [content |-> << <<120, 44, 32, 115, 117, 114, 118, 101, 121>> >>] >> }

\* pages that differ in the two sources of keywords only
KeywordPages ==
    { [has_author_block |-> FALSE, breaks |-> <<>>, person |-> <<>>,
       kw_div |-> k, meta_kw |-> m] :
        k \in KeywordRegions, m \in KeywordMetas }

\* affiliation texts: "google deepmind", "Peking", "University of Oslo",
\* "MIT", "Meta AI"
AffTexts ==
    { <<103, 111, 111, 103, 108, 101, 32, 100, 101, 101, 112, 109, 105, 110, 100>>,
      <<80, 101, 107, 105, 110, 103>>,
      <<85, 110, 105, 118, 101, 114, 115, 105, 116, 121, 32, 111, 102, 32, 79, 115, 108, 111>>,
      <<77, 73, 84>>,
      <<77, 101, 116, 97, 32, 65, 73>> }

\* "Ann" 1 ", Bob" 2 3 with markers 1 and 2 resolved to two affiliation
\* texts and marker 3 unresolved
AffPages ==
    { [has_author_block |-> TRUE,
       breaks |-> << [sup |-> <<Sup(<<49>>, <<a1>>)>>],
                     [sup |-> <<Sup(<<50>>, <<a2>>)>>] >>,
       person |-> << << Node("text", {}, <<65, 110, 110>>),
                        Node("sup", {"ltx_sup"}, <<49>>),
                        Node("text", {}, <<44, 32, 66, 111, 98>>),
                        Node("sup", {"ltx_sup"}, <<50>>),
                        Node("sup", {"ltx_sup"}, <<51>>) >> >>,
       kw_div |-> <<>>, meta_kw |-> <<>>] :
        a1 \in AffTexts, a2 \in AffTexts }

\* a page with a ltx_authors block that has no ltx_personname span
PageNoPersonSpan ==
    [has_author_block |-> TRUE, breaks |-> <<>>, person |-> <<>>,
     kw_div |-> <<>>, meta_kw |-> <<>>]

Pages ==
    PersonPages \cup KeywordPages \cup AffPages
        \cup {SoupPlain, SoupOrg, SoupSurvey, PageNoPersonSpan}

\* the paper whose page is parsed
PagePaper == WithDefaults(NewPaper([paper_id |-> 1, title |-> T_Zeta, published |-> 20]))

(***************************************************************************)
(* output_writer                                                           *)
(***************************************************************************)

\* _count_org, _count_survey
count_org(ps) == Cardinality({i \in 1..Len(ps) : ps[i].is_org})

count_survey(ps) == Cardinality({i \in 1..Len(ps) : ps[i].is_survey})

RECURSIVE DatesInOrder(_, _)
\* the keys of papers_by_date in insertion order
DatesInOrder(ps, seen) ==
    IF ps = <<>> THEN seen
    ELSE DatesInOrder(Tail(ps),
             IF Head(ps).date \in Range(seen) THEN seen
             ELSE Append(seen, Head(ps).date))

\* MdFile with the summary counts taken over the whole batch
MdFile_BatchCounts(date, ps) ==
    LET date_papers == SelectSeq(ps, LAMBDA p : p.date = date)
    IN  [date   |-> date,
         total  |-> Len(ps),
         org    |-> count_org(ps),
         survey |-> count_survey(ps),
         papers |-> date_papers]
\* the markdown file written for one date: the fields of its name
\* {date}_{len}_{org}_{survey}.md and the papers it lists
MdFile(date, ps) ==
    LET date_papers == SelectSeq(ps, LAMBDA p : p.date = date)
    IN  [date   |-> date,
         total  |-> Len(date_papers),
         org    |-> count_org(date_papers),
         survey |-> count_survey(date_papers),
         papers |-> date_papers]

\* write_outputs: md_paths (lines 46-57)
write_outputs(ps) ==
    LET dates == DatesInOrder(ps, <<>>)
    IN  [i \in 1..Len(dates) |-> MdFile(dates[i], ps)]

(***************************************************************************)
(* output_writer: papers.xlsx                                              *)
(*   a sheet is [exists, rows]: the file exists or not, and the rows that  *)
(*   read_excel returns for it, top to bottom. Of the columns only         *)
(*   paper_id, date and is_org are kept.                                   *)
(***************************************************************************)

ExcelMissing == [exists |-> FALSE, rows |-> <<>>]

\* paper_data (lines 169-180)
ExcelRow(paper) ==
    [paper_id  |-> paper.paper_id,
     date      |-> paper.date,
     is_org    |-> paper.is_org]

\* df.drop_duplicates(subset=['paper_id'], keep='last'): a row stays, in its
\* place, when no later row has its paper_id
DropDuplicatesKeepLast(rows) ==
    LET kept == {i \in 1..Len(rows) :
                    \A j \in (i + 1)..Len(rows) : rows[j].paper_id # rows[i].paper_id}
        F[i \in 0..Len(rows)] ==
            IF i = 0 THEN <<>>
            ELSE IF i \in kept THEN Append(F[i - 1], rows[i]) ELSE F[i - 1]
    IN  F[Len(rows)]

RECURSIVE InsertByDateDesc(_, _)
\* a row put after every row whose date is not earlier than its own
InsertByDateDesc(x, sorted) ==
    IF sorted = <<>> THEN <<x>>
    ELSE IF x.date > Head(sorted).date THEN <<x>> \o sorted
    ELSE <<Head(sorted)>> \o InsertByDateDesc(x, Tail(sorted))

RECURSIVE SortByDateDesc(_, _)
\* df.sort_values('date', ascending=False); rows of one date keep their order
\* (the sheets here are far below the length at which the sort stops being
\* an insertion sort)
SortByDateDesc(rows, sorted) ==
    IF rows = <<>> THEN sorted
    ELSE SortByDateDesc(Tail(rows), InsertByDateDesc(Head(rows), sorted))

\* df_combined before the sort (lines 161-190)
ExcelCombined(sheet, ps) ==
    LET df_existing == IF sheet.exists THEN sheet.rows ELSE <<>>
        df_new == [i \in 1..Len(ps) |-> ExcelRow(ps[i])]
    IN  IF df_existing # <<>>
        THEN DropDuplicatesKeepLast(df_existing \o df_new)
        ELSE df_new

\* sort_values('date') raises KeyError: df_combined is pd.DataFrame([]),
\* which has no column at all
ExcelRaises(sheet, ps) ==
    (~sheet.exists \/ sheet.rows = <<>>) /\ ps = <<>>

\* _update_excel: the sheet saved by to_excel (lines 193-194)
update_excel(sheet, ps) ==
    [exists |-> TRUE, rows |-> SortByDateDesc(ExcelCombined(sheet, ps), <<>>)]

\* the data written last for each paper_id, after the batch ps was written
LatestWritten(latest, ps) ==
    LET new == {ExcelRow(ps[i]) : i \in 1..Len(ps)}
        last == {ExcelRow(ps[i]) : i \in {k \in 1..Len(ps) :
                    \A j \in (k + 1)..Len(ps) : ps[j].paper_id # ps[k].paper_id}}
    IN  {r \in latest : \A n \in new : n.paper_id # r.paper_id} \cup last

(***************************************************************************)
(* email_sender                                                            *)
(***************************************************************************)

\* x.name < y.name: the names start with distinct fixed-width dates
NameLess(x, y) == x.date < y.date

RECURSIVE InsertByName(_, _)
InsertByName(x, sorted) ==
    IF sorted = <<>> THEN <<x>>
    ELSE IF NameLess(x, Head(sorted)) THEN <<x>> \o sorted
    ELSE <<Head(sorted)>> \o InsertByName(x, Tail(sorted))

RECURSIVE SortByName(_, _)
\* sorted(md_paths, key=lambda x: x.name)
SortByName(paths, sorted) ==
    IF paths = <<>> THEN sorted
    ELSE SortByName(Tail(paths), InsertByName(Head(paths), sorted))

\* datetime.now().strftime('%Y-%m-%d'): the date of the local, naive clock
Today(t, offset) == (t + offset) \div HoursPerDay

(***************************************************************************)
(* State                                                                   *)
(*   now, tz              the UTC clock (hours) and the local offset       *)
(*   last_email_txt       the watermark file data/last_email.txt           *)
(*   pc                   where main() is: "run" about to call             *)
(*                        run_daily_update, "process" / "write" / "send"   *)
(*                        before the call of that name, "prepare" /        *)
(*                        "smtp" / "update" inside send_daily_update,      *)
(*                        "sleep_day" / "sleep_hour" in time.sleep,        *)
(*                        "stopped" after the loop was left                *)
(*   runs                 calls of run_daily_update so far                 *)
(*   run_result           how the last run_daily_update ended              *)
(*   papers .. survey_count   locals of run_daily_update and               *)
(*                        process_papers; html is the response received    *)
(*                        for each paper of current_papers                 *)
(*   md_paths .. send_result  locals of send_daily_update: queue is the    *)
(*                        sorted list, idx the report at hand (1-based),   *)
(*                        attempt the loop variable of the retry loop      *)
(*   last_smtp            the outcome of the latest SMTP attempt           *)
(*   tries                SMTP attempts made for the report at hand        *)
(*   delivered            per report of queue: messages accepted by SMTP   *)
(*   writes               writes of last_email.txt in this run             *)
(*   last_email_before    last_email.txt when send_daily_update was called *)
(*   emailed              papers listed in a report that was sent and      *)
(*                        followed by a write of the watermark             *)
(*   advanced_at          the time of the latest such write (<<>> if none) *)
(*   papers_xlsx          the spreadsheet output/papers.xlsx               *)
(*   latest_written       per paper_id, the row written last for it        *)
(*   fetch_raised         the paper index raised in the latest fetch       *)
(*   page .. page_paper   one parsed page taken through lines 63-90:       *)
(*                        page_pc is "none" (no page), "parsed",           *)
(*                        "authors", "keywords" or "classified"            *)
(***************************************************************************)
VARIABLES now, tz, last_email_txt, pc, runs, run_result,
          papers, last_processed_date, current_papers, html,
          processed_papers, org_count, survey_count,
          md_paths, queue, idx, attempt, last_smtp, tries, delivered, writes,
          last_email_before, send_result, emailed, advanced_at,
          papers_xlsx, latest_written, fetch_raised,
          page, page_pc, page_authors, page_keywords, page_paper

clock == <<now, tz>>

process_locals == <<papers, last_processed_date, current_papers, html,
                    processed_papers, org_count, survey_count>>

send_locals == <<md_paths, queue, idx, attempt, last_smtp, tries, delivered, writes,
                 last_email_before, send_result>>

history == <<emailed, advanced_at>>

\* papers.xlsx and what was written last for each paper_id
sheet == <<papers_xlsx, latest_written>>

\* one page under the extractors and the classifier (lines 63-90)
page_vars == <<page, page_pc, page_authors, page_keywords, page_paper>>

vars == <<now, tz, last_email_txt, pc, runs, run_result,
          papers, last_processed_date, current_papers, html,
          processed_papers, org_count, survey_count,
          md_paths, queue, idx, attempt, last_smtp, tries, delivered, writes,
          last_email_before, send_result, emailed, advanced_at,
          papers_xlsx, latest_written, fetch_raised,
          page, page_pc, page_authors, page_keywords, page_paper>>

NoDate == [nat |-> FALSE, t |-> 0]

\* the locals of run_daily_update and process_papers before they are set
ProcessLocalsCleared ==
    /\ papers' = <<>>
    /\ last_processed_date' = NoDate
    /\ current_papers' = <<>>
    /\ html' = <<>>
    /\ processed_papers' = <<>>
    /\ org_count' = 0
    /\ survey_count' = 0

\* the locals of send_daily_update before it is called
SendLocalsCleared ==
    /\ md_paths' = <<>>
    /\ queue' = <<>>
    /\ idx' = 0
    /\ attempt' = 0
    /\ last_smtp' = "none"
    /\ tries' = 0
    /\ delivered' = <<>>
    /\ writes' = 0
    /\ last_email_before' = FileMissing
    /\ send_result' = "none"

\* no page is under the extractors
NoPage ==
    /\ page = SoupPlain
    /\ page_pc = "none"
    /\ page_authors = <<>>
    /\ page_keywords = <<>>
    /\ page_paper = <<>>

Init ==
    /\ now = FirstRun
    /\ tz \in TimeZones
    /\ last_email_txt \in {FileMissing, FileUnreadable, FileEmpty, FileGarbage,
                           FileDate(0), FileDate(1)}
    /\ pc = "run"
    /\ runs = 0
    /\ run_result = "none"
    /\ papers = <<>>
    /\ last_processed_date = NoDate
    /\ current_papers = <<>>
    /\ html = <<>>
    /\ processed_papers = <<>>
    /\ org_count = 0
    /\ survey_count = 0
    /\ md_paths = <<>>
    /\ queue = <<>>
    /\ idx = 0
    /\ attempt = 0
    /\ last_smtp = "none"
    /\ tries = 0
    /\ delivered = <<>>
    /\ writes = 0
    /\ last_email_before = FileMissing
    /\ send_result = "none"
    /\ emailed = {}
    /\ advanced_at = <<>>
    /\ papers_xlsx = ExcelMissing
    /\ latest_written = {}
    /\ fetch_raised = FALSE
    /\ NoPage

(***************************************************************************)
(* main.py                                                                 *)
(***************************************************************************)

\* run_daily_update returns normally: main logs and sleeps 24 hours
RunReturns ==
    /\ run_result' = "returned"
    /\ pc' = "sleep_day"

\* RunRaises without the except clause of main: the exception ends the loop
RunRaises_Uncaught ==
    /\ run_result' = "raised"
    /\ pc' = "stopped"

\* run_daily_update re-raises (lines 75-77): main logs and sleeps 1 hour
RunRaises ==
    /\ run_result' = "raised"
    /\ pc' = "sleep_hour"

\* FetchPapers with fetch_papers lacking its except clause: the exception of
\* the index leaves run_daily_update
FetchPapers_Propagates ==
    /\ pc = "run"
    /\ runs < MaxRuns
    /\ runs' = runs + 1
    /\ \E answers \in BOOLEAN :
         LET fetched == IF answers THEN fetch_papers(now) ELSE <<>>
         IN  /\ fetch_raised' = ~answers
             /\ papers' = fetched
             /\ IF ~answers
                THEN RunRaises
                ELSE IF fetched = <<>>
                THEN RunReturns
                ELSE pc' = "process" /\ run_result' = "none"
    /\ last_processed_date' = NoDate
    /\ current_papers' = <<>>
    /\ html' = <<>>
    /\ processed_papers' = <<>>
    /\ org_count' = 0
    /\ survey_count' = 0
    /\ SendLocalsCleared
    /\ UNCHANGED <<clock, last_email_txt, history>>
    /\ UNCHANGED <<sheet, page_vars>>
\* main calls run_daily_update, which fetches (lines 46-60). fetch_papers
\* turns any exception of the index into an empty list.
FetchPapers ==
    /\ pc = "run"
    /\ runs < MaxRuns
    /\ runs' = runs + 1
    /\ \E answers \in BOOLEAN :
         LET fetched == IF answers THEN fetch_papers(now) ELSE <<>>
         IN  /\ fetch_raised' = ~answers
             /\ papers' = fetched
             /\ IF fetched = <<>>
                THEN RunReturns
                ELSE pc' = "process" /\ run_result' = "none"
    /\ last_processed_date' = NoDate
    /\ current_papers' = <<>>
    /\ html' = <<>>
    /\ processed_papers' = <<>>
    /\ org_count' = 0
    /\ survey_count' = 0
    /\ SendLocalsCleared
    /\ UNCHANGED <<clock, last_email_txt, history>>
    /\ UNCHANGED <<sheet, page_vars>>

\* run_daily_update calls process_papers (line 63). With NaT as the date read,
\* strftime at line 35 raises and the exception leaves run_daily_update.
ProcessPapers ==
    /\ pc = "process"
    /\ LET last == get_last_email_date(last_email_txt, now)
       IN  /\ last_processed_date' = last
           /\ IF last.nat
              THEN /\ RunRaises
                   /\ UNCHANGED <<current_papers, html, processed_papers,
                                  org_count, survey_count>>
              ELSE LET current == FilterRecent(papers, last.t)
                   IN  \E resp \in [1..Len(current) -> Responses] :
                         \E r \in ProcessResults(current, resp) :
                            /\ current_papers' = current
                            /\ html' = resp
                            /\ processed_papers' = r.processed_papers
                            /\ org_count' = r.org_count
                            /\ survey_count' = r.survey_count
                            /\ pc' = "write"
                            /\ UNCHANGED run_result
    /\ UNCHANGED <<clock, last_email_txt, runs, papers, send_locals, history>>
    /\ UNCHANGED <<sheet, fetch_raised, page_vars>>

\* run_daily_update calls write_outputs (line 66): the markdown files, then
\* the spreadsheet. An exception of either (a failed write, the KeyError of
\* an empty batch on an empty sheet) is logged and re-raised (lines 65-67)
\* and leaves run_daily_update.
WriteOutputs ==
    /\ pc = "write"
    /\ \E written \in BOOLEAN :
         IF written /\ ~ExcelRaises(papers_xlsx, processed_papers)
         THEN /\ md_paths' = write_outputs(processed_papers)
              /\ papers_xlsx' = update_excel(papers_xlsx, processed_papers)
              /\ latest_written' = LatestWritten(latest_written, processed_papers)
              /\ pc' = "send"
              /\ UNCHANGED run_result
         ELSE /\ RunRaises
              /\ UNCHANGED <<md_paths, sheet>>
    /\ ProcessLocalsCleared
    /\ UNCHANGED <<clock, last_email_txt, runs, queue, idx, attempt, last_smtp,
                   tries, delivered, writes, last_email_before, send_result,
                   history, fetch_raised, page_vars>>

\* send_daily_update returns; run_daily_update logs success and returns
SendReturns ==
    /\ send_result' = "returned"
    /\ RunReturns

\* SendRaises without the inner try of run_daily_update: the exception of
\* send_daily_update reaches the outer except clause and is re-raised
SendRaises_Propagates ==
    /\ send_result' = "raised"
    /\ RunRaises
\* send_daily_update re-raises (lines 176-178); run_daily_update catches it,
\* logs and returns (lines 72-73)
SendRaises ==
    /\ send_result' = "raised"
    /\ RunReturns

\* the for loop over the sorted reports goes on to the next report or ends
NextReport ==
    IF idx < Len(queue)
    THEN /\ idx' = idx + 1
         /\ pc' = "prepare"
         /\ UNCHANGED <<send_result, run_result>>
    ELSE /\ idx' = idx
         /\ SendReturns

\* send_daily_update up to the loop (lines 101-114)
SendBegin ==
    /\ pc = "send"
    /\ last_email_before' = last_email_txt
    /\ IF md_paths = <<>>
       THEN /\ SendReturns
            /\ UNCHANGED <<queue, idx, delivered>>
       ELSE /\ queue' = SortByName(md_paths, <<>>)
            /\ idx' = 1
            /\ delivered' = [i \in 1..Len(md_paths) |-> 0]
            /\ pc' = "prepare"
            /\ UNCHANGED <<send_result, run_result>>
    /\ UNCHANGED <<clock, last_email_txt, runs, process_locals, md_paths,
                   attempt, last_smtp, tries, writes, history>>
    /\ UNCHANGED <<sheet, fetch_raised, page_vars>>

\* one report up to the retry loop (lines 115-151): read_text or the write of
\* the email log raises, convert_to_html returns None (continue), or the
\* message is built
PrepareReport ==
    /\ pc = "prepare"
    /\ \E outcome \in {"built", "not_converted", "raised"} :
         CASE outcome = "built" ->
                /\ pc' = "smtp"
                /\ UNCHANGED <<idx, send_result, run_result>>
           [] outcome = "not_converted" -> NextReport
           [] outcome = "raised" -> SendRaises /\ UNCHANGED idx
    /\ attempt' = 0
    /\ last_smtp' = "none"
    /\ tries' = 0
    /\ UNCHANGED <<clock, last_email_txt, runs, process_locals, md_paths, queue,
                   delivered, writes, last_email_before, history>>
    /\ UNCHANGED <<sheet, fetch_raised, page_vars>>

\* SmtpAttempt without the raise on the last attempt: the retry loop ends and
\* the code after it runs
SmtpAttempt_FallThrough ==
    /\ pc = "smtp"
    /\ tries' = tries + 1
    /\ \E accepted \in BOOLEAN :
         IF accepted
         THEN /\ last_smtp' = "ok"
              /\ delivered' = [delivered EXCEPT ![idx] = @ + 1]
              /\ pc' = "update"
              /\ UNCHANGED <<attempt, send_result, run_result>>
         ELSE /\ last_smtp' = "fail"
              /\ UNCHANGED delivered
              /\ IF attempt < MAX_RETRIES - 1
                 THEN /\ attempt' = attempt + 1
                      /\ UNCHANGED <<pc, send_result, run_result>>
                 ELSE /\ pc' = "update"
                      /\ UNCHANGED <<attempt, send_result, run_result>>
    /\ UNCHANGED <<clock, last_email_txt, runs, process_locals, md_paths, queue,
                   idx, writes, last_email_before, history>>
    /\ UNCHANGED <<sheet, fetch_raised, page_vars>>

\* SmtpAttempt with the last attempt tested as attempt < MAX_RETRIES: one
\* attempt more before the raise
SmtpAttempt_OneMore ==
    /\ pc = "smtp"
    /\ tries' = tries + 1
    /\ \E accepted \in BOOLEAN :
         IF accepted
         THEN /\ last_smtp' = "ok"
              /\ delivered' = [delivered EXCEPT ![idx] = @ + 1]
              /\ pc' = "update"
              /\ UNCHANGED <<attempt, send_result, run_result>>
         ELSE /\ last_smtp' = "fail"
              /\ UNCHANGED delivered
              /\ IF attempt < MAX_RETRIES
                 THEN /\ attempt' = attempt + 1
                      /\ UNCHANGED <<pc, send_result, run_result>>
                 ELSE /\ SendRaises
                      /\ UNCHANGED attempt
    /\ UNCHANGED <<clock, last_email_txt, runs, process_locals, md_paths, queue,
                   idx, writes, last_email_before, history>>
    /\ UNCHANGED <<sheet, fetch_raised, page_vars>>

\* one pass of the retry loop (lines 154-171): the message is accepted (break),
\* or the attempt fails and the loop sleeps and goes on, or re-raises on the
\* last attempt
SmtpAttempt ==
    /\ pc = "smtp"
    /\ tries' = tries + 1
    /\ \E accepted \in BOOLEAN :
         IF accepted
         THEN /\ last_smtp' = "ok"
              /\ delivered' = [delivered EXCEPT ![idx] = @ + 1]
              /\ pc' = "update"
              /\ UNCHANGED <<attempt, send_result, run_result>>
         ELSE /\ last_smtp' = "fail"
              /\ UNCHANGED delivered
              /\ IF attempt < MAX_RETRIES - 1
                 THEN /\ attempt' = attempt + 1
                      /\ UNCHANGED <<pc, send_result, run_result>>
                 ELSE /\ SendRaises
                      /\ UNCHANGED attempt
    /\ UNCHANGED <<clock, last_email_txt, runs, process_locals, md_paths, queue,
                   idx, writes, last_email_before, history>>
    /\ UNCHANGED <<sheet, fetch_raised, page_vars>>

\* update_last_email_date, called after the retry loop (line 174), and the
\* step of the for loop that follows it
UpdateLastEmailDate ==
    /\ pc = "update"
    /\ last_email_txt' = FileDate(Today(now, tz))
    /\ writes' = writes + 1
    /\ emailed' = emailed \cup {queue[idx].papers[i].paper_id :
                                   i \in 1..Len(queue[idx].papers)}
    /\ advanced_at' = <<now>>
    /\ NextReport
    /\ UNCHANGED <<clock, runs, process_locals, md_paths, queue, attempt,
                   last_smtp, tries, delivered, last_email_before>>
    /\ UNCHANGED <<sheet, fetch_raised, page_vars>>

\* main: time.sleep(24 * 60 * 60) ends and the loop calls the next run
SleepDay ==
    /\ pc = "sleep_day"
    /\ now' = now + DAY_SLEEP
    /\ pc' = "run"
    /\ UNCHANGED <<tz, last_email_txt, runs, run_result, process_locals,
                   send_locals, history>>
    /\ UNCHANGED <<sheet, fetch_raised, page_vars>>

\* main: time.sleep(60 * 60) after an exception ends and the loop goes on
SleepHour ==
    /\ pc = "sleep_hour"
    /\ now' = now + ERROR_SLEEP
    /\ pc' = "run"
    /\ UNCHANGED <<tz, last_email_txt, runs, run_result, process_locals,
                   send_locals, history>>
    /\ UNCHANGED <<sheet, fetch_raised, page_vars>>

\* KeyboardInterrupt reaches main (lines 90-92): the loop is left and the
\* process ends; only the files remain
KeyboardInterrupt ==
    /\ pc # "stopped"
    /\ pc' = "stopped"
    /\ run_result' = "none"
    /\ ProcessLocalsCleared
    /\ SendLocalsCleared
    /\ UNCHANGED <<clock, last_email_txt, runs, history>>
    /\ UNCHANGED <<sheet, fetch_raised, page_vars>>

Next ==
    \/ FetchPapers
    \/ ProcessPapers
    \/ WriteOutputs
    \/ SendBegin
    \/ PrepareReport
    \/ SmtpAttempt
    \/ UpdateLastEmailDate
    \/ SleepDay
    \/ SleepHour
    \/ KeyboardInterrupt

Spec == Init /\ [][Next]_vars

\* the steps the program takes by itself: a call that was made returns and a
\* sleep ends; a KeyboardInterrupt may come or not
Step ==
    \/ FetchPapers
    \/ ProcessPapers
    \/ WriteOutputs
    \/ SendBegin
    \/ PrepareReport
    \/ SmtpAttempt
    \/ UpdateLastEmailDate
    \/ SleepDay
    \/ SleepHour

(***************************************************************************)
(* One page through lines 63-90 of process_papers                          *)
(***************************************************************************)

\* the state of main and of its files
program == <<clock, last_email_txt, pc, runs, run_result, process_locals,
             send_locals, history, fetch_raised>>

\* main before its first call of run_daily_update, on a machine in UTC
\* without last_email.txt
ProgramAtStart ==
    /\ now = FirstRun
    /\ tz = 0
    /\ last_email_txt = FileMissing
    /\ pc = "run"
    /\ runs = 0
    /\ run_result = "none"
    /\ papers = <<>>
    /\ last_processed_date = NoDate
    /\ current_papers = <<>>
    /\ html = <<>>
    /\ processed_papers = <<>>
    /\ org_count = 0
    /\ survey_count = 0
    /\ md_paths = <<>>
    /\ queue = <<>>
    /\ idx = 0
    /\ attempt = 0
    /\ last_smtp = "none"
    /\ tries = 0
    /\ delivered = <<>>
    /\ writes = 0
    /\ last_email_before = FileMissing
    /\ send_result = "none"
    /\ emailed = {}
    /\ advanced_at = <<>>
    /\ fetch_raised = FALSE

\* soup = BeautifulSoup(response.text, 'html.parser') (line 63)
PageInit ==
    /\ ProgramAtStart
    /\ papers_xlsx = ExcelMissing
    /\ latest_written = {}
    /\ page \in Pages
    /\ page_pc = "parsed"
    /\ page_authors = <<>>
    /\ page_keywords = <<>>
    /\ page_paper = <<>>

\* authors_info, paper_details = self._extract_author_info(soup) (line 66)
ExtractAuthorInfo ==
    /\ page_pc = "parsed"
    /\ page_authors' = extract_author_info(page)
    /\ page_pc' = "authors"
    /\ UNCHANGED <<page, page_keywords, page_paper, program, sheet>>

\* keywords = self._extract_keywords(soup) (line 67)
ExtractKeywords ==
    /\ page_pc = "authors"
    /\ page_keywords' = extract_keywords(page)
    /\ page_pc' = "keywords"
    /\ UNCHANGED <<page, page_authors, page_paper, program, sheet>>

\* the record is updated and classified (lines 70-90), for one ordering of
\* list(all_affiliations)
ClassifyPage ==
    /\ page_pc = "keywords"
    /\ \E o \in Orderings(AllAffiliations(page_authors)) :
         page_paper' = <<Classified(PagePaper, page, o).paper>>
    /\ page_pc' = "classified"
    /\ UNCHANGED <<page, page_authors, page_keywords, program, sheet>>

PageNext ==
    \/ ExtractAuthorInfo
    \/ ExtractKeywords
    \/ ClassifyPage

PageSpec == PageInit /\ [][PageNext]_vars

(***************************************************************************)
(* _update_excel called with one batch after the other                     *)
(***************************************************************************)

\* the longest batch tried
MaxBatch == 2

\* the records a batch is made of: a paper_id has one publication date,
\* and what is known of the paper (is_org) may differ from call to call
BatchPapers ==
    { [paper_id |-> i, date |-> (i + 1) \div 2, is_org |-> o] :
        i \in 1..4, o \in BOOLEAN }

\* the spreadsheet is missing, or exists and has no row
ExcelInit ==
    /\ ProgramAtStart
    /\ NoPage
    /\ papers_xlsx \in {ExcelMissing, [exists |-> TRUE, rows |-> <<>>]}
    /\ latest_written = {}

\* one call of _update_excel; a call that raises writes nothing
UpdateExcel ==
    /\ \E batch \in SeqsUpTo(BatchPapers, MaxBatch) :
         /\ ~ExcelRaises(papers_xlsx, batch)
         /\ papers_xlsx' = update_excel(papers_xlsx, batch)
         /\ latest_written' = LatestWritten(latest_written, batch)
    /\ UNCHANGED <<program, page_vars>>

ExcelNext == UpdateExcel

ExcelSpec == ExcelInit /\ [][ExcelNext]_vars

(***************************************************************************)
(* Properties of process_papers, read in the state it returns in           *)
(* (pc = "write")                                                          *)
(***************************************************************************)

\* the positions of paper identifier id in the list ps
Positions(ps, id) == {j \in 1..Len(ps) : ps[j].paper_id = id}

\* the record that process_papers returned for identifier id
Returned(id) == processed_papers[CHOOSE j \in Positions(processed_papers, id) : TRUE]

\* C1: every record that survives the filter is returned exactly once; one
\* whose fetch raised, whose status is not 200 or whose parsing raised is
\* returned with is_org = false, is_survey = false and authors_info = [], and
\* the records whose page was fetched and parsed carry what was extracted
\* from their page, wherever they stand in the batch.
C1_FailureIsolation ==
    pc = "write" =>
        /\ Len(processed_papers) = Len(current_papers)
        /\ \A i \in 1..Len(current_papers) :
             LET id == current_papers[i].paper_id
                 failed == \/ html[i].fetch = "raise"
                           \/ html[i].status # 200
                           \/ html[i].parse = "raise"
             IN  /\ Cardinality(Positions(processed_papers, id)) = 1
                 /\ failed =>
                      /\ ~Returned(id).is_org
                      /\ ~Returned(id).is_survey
                      /\ Returned(id).authors_info = <<>>
                 /\ ~failed =>
                      /\ Returned(id).authors_info
                           = extract_author_info(html[i].soup)
                      /\ Returned(id).keywords = extract_keywords(html[i].soup)

\* C1 witness: a batch of three whose first fetch raised, whose second got a
\* 404 and whose third was enriched as an organization paper
C1_Witness ==
    /\ pc = "write"
    /\ Len(current_papers) = 3
    /\ html[1].fetch = "raise"
    /\ html[2].fetch = "ok" /\ html[2].status = 404
    /\ html[3].status = 200 /\ html[3].parse = "ok"
    /\ Returned(current_papers[3].paper_id).is_org

\* C5: the filter keeps exactly the fetched records stamped strictly later
\* than the watermark, in their input order.
C5_FilterStrict ==
    pc = "write" =>
        /\ \A i \in 1..Len(papers) :
             Positions(current_papers, papers[i].paper_id) # {}
                 <=> papers[i].date_dt > last_processed_date.t
        /\ \A j, k \in 1..Len(current_papers) :
             j < k =>
                \E a, b \in 1..Len(papers) :
                    /\ a < b
                    /\ papers[a].paper_id = current_papers[j].paper_id
                    /\ papers[b].paper_id = current_papers[k].paper_id
        /\ \A j \in 1..Len(current_papers) :
             Cardinality(Positions(current_papers, current_papers[j].paper_id)) = 1

\* C5 witness: two records kept, one stamped exactly at the watermark dropped
C5_Witness ==
    /\ pc = "write"
    /\ Len(current_papers) = 2
    /\ \E i \in 1..Len(papers) :
         /\ papers[i].date_dt = last_processed_date.t
         /\ Positions(current_papers, papers[i].paper_id) = {}

\* C6: the returned list is ordered by (organization flag descending, survey
\* flag descending, title ascending) and holds the records of the batch, each
\* once.
C6_SortedByKey ==
    pc = "write" =>
        /\ \A i \in 1..(Len(processed_papers) - 1) :
             LET a == processed_papers[i]
                 b == processed_papers[i + 1]
             IN  \/ a.is_org /\ ~b.is_org
                 \/ a.is_org = b.is_org /\ a.is_survey /\ ~b.is_survey
                 \/ /\ a.is_org = b.is_org
                    /\ a.is_survey = b.is_survey
                    /\ StrLeq(a.title, b.title)
        /\ Len(processed_papers) = Len(current_papers)
        /\ \A i \in 1..Len(current_papers) :
             Cardinality(Positions(processed_papers, current_papers[i].paper_id)) = 1

\* C6 witness: an organization paper, then a survey, then a plain paper, in
\* an order that is not the batch's
C6_Witness ==
    /\ pc = "write"
    /\ Len(processed_papers) = 3
    /\ processed_papers[1].is_org
    /\ ~processed_papers[2].is_org /\ processed_papers[2].is_survey
    /\ ~processed_papers[3].is_org /\ ~processed_papers[3].is_survey
    /\ processed_papers[1].paper_id # current_papers[1].paper_id

\* C7: org_count and survey_count are the numbers of returned records with
\* is_org and with is_survey, in every run.
C7_CountsMatch ==
    pc = "write" =>
        /\ org_count
             = Cardinality({i \in 1..Len(processed_papers) : processed_papers[i].is_org})
        /\ survey_count
             = Cardinality({i \in 1..Len(processed_papers) : processed_papers[i].is_survey})

\* C7 witness: a second run with a paper that is both, a failed paper, and
\* counts that differ
C7_Witness ==
    /\ pc = "write"
    /\ runs = 2
    /\ org_count = 1
    /\ survey_count = 2
    /\ \E i \in 1..Len(current_papers) : html[i].fetch = "raise"
    /\ \E i \in 1..Len(processed_papers) :
         processed_papers[i].is_org /\ processed_papers[i].is_survey

(***************************************************************************)
(* Properties of send_daily_update                                         *)
(***************************************************************************)

InSend == pc \in {"prepare", "smtp", "update"}

\* send_daily_update raised because the last SMTP attempt for a report failed
SendExhausted ==
    send_result = "raised" /\ last_smtp = "fail" /\ tries = MAX_RETRIES

\* C2, as claimed: when a report's send failed on all attempts, last_email.txt
\* is what it was when send_daily_update was called.
C2_ExhaustedSendKeepsWatermark ==
    SendExhausted => last_email_txt = last_email_before

SendMeasure ==
    (Len(queue) - idx) * (MAX_RETRIES + 2)
        + (CASE pc = "prepare" -> MAX_RETRIES + 1
             [] pc = "smtp" -> MAX_RETRIES - attempt
             [] OTHER -> 0)

\* C8: at most MAX_RETRIES SMTP attempts per report, none after the first
\* accepted one, a raise after the last failed one; and the send step ends:
\* inside it a step is always possible, and each step either leaves it or
\* lowers SendMeasure, which is never negative.
C8_BoundedRetries ==
    /\ [](/\ tries <= MAX_RETRIES
          /\ \A i \in 1..Len(delivered) : delivered[i] <= 1
          /\ pc = "smtp" =>
               /\ tries = attempt
               /\ attempt < MAX_RETRIES
               /\ delivered[idx] = 0
          /\ (last_smtp = "fail" /\ tries = MAX_RETRIES) =>
               send_result = "raised" /\ ~InSend)
    /\ [](InSend => SendMeasure >= 0 /\ ENABLED Step)
    /\ [][InSend /\ InSend' => SendMeasure' < SendMeasure]_vars

\* C8 witness: a report whose fifth attempt failed, after a report that was sent
C8_Witness ==
    /\ SendExhausted
    /\ idx = 2
    /\ delivered = <<1, 0>>

(***************************************************************************)
(* Properties of main                                                      *)
(***************************************************************************)

\* C9: a run that raised is followed by the one-hour sleep and a run that
\* returned by the 24-hour sleep; each sleep can end, and unless a
\* KeyboardInterrupt comes it ends in the loop calling run_daily_update
\* again, which it can do (within MaxRuns).
C9_LoopGoesOn ==
    /\ [](/\ pc = "sleep_hour" <=> run_result = "raised" /\ pc # "run"
          /\ pc = "sleep_day" <=> run_result = "returned" /\ pc # "run"
          /\ pc \in {"sleep_hour", "sleep_day"} => ENABLED Step
          /\ pc = "run" /\ runs < MaxRuns => ENABLED FetchPapers)
    /\ [][/\ (pc = "sleep_hour" /\ pc' # "stopped")
               => pc' = "run" /\ now' = now + ERROR_SLEEP
          /\ (pc = "sleep_day" /\ pc' # "stopped")
               => pc' = "run" /\ now' = now + DAY_SLEEP
          /\ (pc = "run" /\ pc' # "stopped") => runs' = runs + 1]_vars

\* C9 witness: a second run under way one hour after the first run raised
C9_Witness ==
    /\ runs = 2
    /\ now = FirstRun + ERROR_SLEEP
    /\ pc = "write"

(***************************************************************************)
(* Properties of the watermark across runs                                 *)
(***************************************************************************)

\* C4, as claimed: the filter of a later run keeps no paper that was listed
\* in a report sent by a run that wrote the watermark, and keeps every fetched
\* paper published after the latest such run.
C4_WatermarkSeparates ==
    pc = "write" =>
        /\ \A i \in 1..Len(current_papers) :
             current_papers[i].paper_id \notin emailed
        /\ advanced_at # <<>> =>
             \A i \in 1..Len(papers) :
                 papers[i].date_dt > advanced_at[1]
                     => Positions(current_papers, papers[i].paper_id) # {}

\* process_papers raised: the run ended in an exception with the date read
\* and nothing written yet
ProcessPapersRaised ==
    run_result = "raised" /\ last_processed_date # NoDate

\* C10, as claimed: whenever last_email.txt is missing, unreadable or not a
\* valid date (empty included), the date read is now minus one day and
\* process_papers does not raise.
C10_WatermarkReadNeverFatal ==
    /\ ~ProcessPapersRaised
    /\ (pc = "write" /\ last_email_txt.kind # "date")
          => last_processed_date = [nat |-> FALSE, t |-> now - HoursPerDay]


(***************************************************************************)
(* Properties of run_daily_update as a whole                               *)
(***************************************************************************)

\* C11: when the paper index raises, fetch_papers returns an empty list and
\* run_daily_update returns normally at once: main goes to its 24-hour
\* sleep, nothing was processed, no report and no spreadsheet row was
\* written, no email was sent, and last_email.txt and papers.xlsx are what
\* they were, up to the next call.
C11_FetchFailureIsNothingToDo ==
    /\ [](fetch_raised =>
            /\ pc \in {"sleep_day", "run", "stopped"}
            /\ pc # "stopped" => run_result = "returned"
            /\ papers = <<>>
            /\ current_papers = <<>>
            /\ processed_papers = <<>>
            /\ md_paths = <<>>
            /\ delivered = <<>>
            /\ tries = 0
            /\ writes = 0)
    /\ [][fetch_raised' =>
            /\ last_email_txt' = last_email_txt
            /\ papers_xlsx' = papers_xlsx
            /\ emailed' = emailed]_vars
    /\ [][(fetch_raised' /\ runs' = runs + 1) =>
            /\ pc' = "sleep_day"
            /\ run_result' = "returned"]_vars

\* the second run's fetch failed after a first run that wrote and sent
C11_Witness ==
    /\ fetch_raised
    /\ pc = "sleep_day"
    /\ runs = 2
    /\ papers_xlsx.rows # <<>>
    /\ emailed # {}

(***************************************************************************)
(* Properties of the extractors and the classifier, read after the step    *)
(* that computed the value                                                 *)
(***************************************************************************)

\* the page went through _extract_author_info
AuthorsExtracted == page_pc \in {"authors", "keywords", "classified"}

\* a child that is a string with something left of it after the strips
IsNameText(n) == n.tag = "text" /\ StripCommas(Strip(n.text)) # <<>>

\* a child that is a numeric superscript marker
IsMarker(n) == n.tag = "sup" /\ "ltx_sup" \in n.class /\ IsDigit(Strip(n.text))

\* the positions of the name texts among the children, in document order
NamePositions(children) ==
    LET F[i \in 0..Len(children)] ==
            IF i = 0 THEN <<>>
            ELSE IF IsNameText(children[i]) THEN Append(F[i - 1], i) ELSE F[i - 1]
    IN  F[Len(children)]

\* the markers at the positions from..to, in document order
MarkersBetween(children, from, to) ==
    LET F[i \in (from - 1)..to] ==
            IF i < from THEN <<>>
            ELSE IF IsMarker(children[i])
                 THEN Append(F[i - 1], Strip(children[i].text))
                 ELSE F[i - 1]
    IN  F[to]

\* C12, as claimed: the authors are the non-empty text nodes of the
\* personname span, in order, and each author's aff_numbers are exactly the
\* numeric markers after the author's name text and before the next name
\* text; an author without such markers has empty arrays.
C12_AuthorBoundaries ==
    (AuthorsExtracted /\ page.has_author_block /\ page.person # <<>>) =>
        LET children == page.person[1]
            names == NamePositions(children)
        IN  /\ Len(page_authors) = Len(names)
            /\ \A k \in 1..Len(names) :
                 LET last == IF k < Len(names) THEN names[k + 1] - 1
                             ELSE Len(children)
                     markers == MarkersBetween(children, names[k] + 1, last)
                 IN  /\ k <= Len(page_authors)
                     /\ page_authors[k].name
                            = Strip(StripCommas(Strip(children[names[k]].text)))
                     /\ page_authors[k].aff_numbers = markers
                     /\ markers = <<>> => page_authors[k].affiliations = <<>>

\* the affiliation map holds the marker
MapHas(map, num) == \E j \in 1..Len(map) : map[j].key = num

\* the text the affiliation map holds for a marker: the one assigned last
MapText(map, num) ==
    map[CHOOSE j \in 1..Len(map) :
            /\ map[j].key = num
            /\ \A k \in (j + 1)..Len(map) : map[k].key # num].value

RECURSIVE AllAffNumbers(_)
\* the aff_numbers of all authors, one after the other
AllAffNumbers(authors) ==
    IF authors = <<>> THEN <<>>
    ELSE Head(authors).aff_numbers \o AllAffNumbers(Tail(authors))

\* C13: every author returned has as many affiliations as aff_numbers;
\* affiliations[i] is the text the affiliation map holds for aff_numbers[i],
\* and the empty string when the map does not hold that marker; no marker
\* is dropped: the aff_numbers of the authors are all the numeric markers
\* of the span.
C13_AffiliationsParallel ==
    AuthorsExtracted =>
        LET map == CollectAffiliations(page.breaks, <<>>)
        IN  /\ \A k \in 1..Len(page_authors) :
                 LET a == page_authors[k]
                 IN  /\ Len(a.aff_numbers) = Len(a.affiliations)
                     /\ \A i \in 1..Len(a.aff_numbers) :
                          /\ i <= Len(a.affiliations)
                          /\ a.affiliations[i] =
                               IF MapHas(map, a.aff_numbers[i])
                               THEN MapText(map, a.aff_numbers[i])
                               ELSE <<>>
            /\ page_authors # <<>> =>
                 AllAffNumbers(page_authors)
                     = MarkersBetween(page.person[1], 1, Len(page.person[1]))

\* an author with two markers, the first one resolved and the second one
\* not in the map
C13_Witness ==
    /\ AuthorsExtracted
    /\ \E k \in 1..Len(page_authors) :
         LET a == page_authors[k]
             map == CollectAffiliations(page.breaks, <<>>)
         IN  /\ Len(a.aff_numbers) = 2
             /\ MapHas(map, a.aff_numbers[1])
             /\ a.affiliations[1] # <<>>
             /\ ~MapHas(map, a.aff_numbers[2])
             /\ a.affiliations[2] = <<>>

\* the page went through _extract_keywords
KeywordsExtracted == page_pc \in {"keywords", "classified"}

\* the comma split of a text, trimmed, the empty pieces left out
TrimmedKeywords(text) == SelectSeq(SplitKeywords(text), LAMBDA k : k # <<>>)

\* what the keywords region yields: nothing when it is absent
FromRegion(soup) ==
    IF soup.kw_div = <<>> THEN <<>>
    ELSE TrimmedKeywords(GetText(soup.kw_div[1]))

\* what the "keywords" meta tag yields: nothing when the tag or its
\* content attribute is absent
FromMeta(soup) ==
    IF soup.meta_kw = <<>> \/ soup.meta_kw[1].content = <<>> THEN <<>>
    ELSE TrimmedKeywords(soup.meta_kw[1].content[1])

\* C14, as claimed: the result is what the keywords region yields, and when
\* the region is absent or yields no non-empty keyword it is what the meta
\* tag yields; it is empty only when neither source yields a keyword.
C14_KeywordsFallBackToMeta ==
    KeywordsExtracted =>
        /\ page_keywords = IF FromRegion(page) # <<>> THEN FromRegion(page)
                           ELSE FromMeta(page)
        /\ page_keywords = <<>> => FromRegion(page) = <<>> /\ FromMeta(page) = <<>>

\* sub occurs in s when the case of ASCII letters is ignored
OccursIgnoringCase(s, sub) ==
    \E i \in 0..(Len(s) - Len(sub)) :
        \A j \in 1..Len(sub) : LowerChar(s[i + j]) = LowerChar(sub[j])

\* some configured major-organization name occurs in the text
NamesMajorOrg(text) ==
    \E i \in 1..Len(major_orgs) : OccursIgnoringCase(text, major_orgs[i])

\* C16: for a page fetched with status 200 and parsed, the record's
\* affiliations are the resolved affiliation strings of all authors, each
\* once, and is_org is true exactly when a major-organization name is a
\* case-insensitive substring of the text they form joined by blanks; a
\* name found inside one affiliation string always sets is_org, and a
\* record without resolved affiliations has is_org false.
C16_OrgFlagIsSubstringMatch ==
    page_pc = "classified" =>
        LET p == page_paper[1]
            resolved == AllAffiliations(page_authors)
        IN  /\ Range(p.affiliations) = resolved
            /\ Len(p.affiliations) = Cardinality(resolved)
            /\ p.is_org <=> NamesMajorOrg(Join(<<32>>, p.affiliations))
            /\ (\E a \in resolved : NamesMajorOrg(a)) => p.is_org
            /\ resolved = {} => ~p.is_org

\* a record flagged for an affiliation that names an organization in
\* another case than the configured name
C16_Witness ==
    /\ page_pc = "classified"
    /\ page_paper[1].is_org
    /\ Len(page_paper[1].affiliations) >= 2
    /\ \A i \in 1..Len(major_orgs) :
         ~Contains(Join(<<32>>, page_paper[1].affiliations), major_orgs[i])

(***************************************************************************)
(* Properties of papers.xlsx                                               *)
(***************************************************************************)

\* C15, as claimed: after any calls of _update_excel, the first one on a
\* missing or empty spreadsheet and batches with a repeated paper_id
\* included, the sheet has at most one row per paper_id, that row is the
\* one written last for the paper_id, every paper_id written has its row,
\* and the rows are in descending date order.
C15_SheetKeyedByPaperId ==
    LET rows == papers_xlsx.rows
    IN  /\ \A i, j \in 1..Len(rows) :
             rows[i].paper_id = rows[j].paper_id => i = j
        /\ \A i \in 1..Len(rows) : rows[i] \in latest_written
        /\ \A r \in latest_written : \E i \in 1..Len(rows) : rows[i] = r
        /\ \A i, j \in 1..Len(rows) : i < j => rows[i].date >= rows[j].date

(***************************************************************************)
(* Properties of the reports                                               *)
(***************************************************************************)

\* the reports md that write_outputs returns for the batch ps: one per date
\* of the batch, each record in the report of its date and in no other, in
\* the order of the batch, with the counts of the report's own records
ReportsOf(md, ps) ==
    /\ \A i, j \in 1..Len(md) : md[i].date = md[j].date => i = j
    /\ {md[i].date : i \in 1..Len(md)} = {ps[j].date : j \in 1..Len(ps)}
    /\ SeqSum([i \in 1..Len(md) |-> Len(md[i].papers)]) = Len(ps)
    /\ \A j \in 1..Len(ps) :
         \E i \in 1..Len(md) :
            /\ md[i].date = ps[j].date
            /\ \E k \in 1..Len(md[i].papers) : md[i].papers[k] = ps[j]
    /\ \A i \in 1..Len(md) :
         LET own == md[i].papers
         IN  /\ \A k \in 1..Len(own) : own[k].date = md[i].date
             /\ \A k, l \in 1..Len(own) :
                  k < l => \E a, b \in 1..Len(ps) :
                              a < b /\ ps[a] = own[k] /\ ps[b] = own[l]
             /\ md[i].total = Len(own)
             /\ md[i].org = Cardinality({k \in 1..Len(own) : own[k].is_org})
             /\ md[i].survey = Cardinality({k \in 1..Len(own) : own[k].is_survey})

\* C17: write_outputs returns one report per publication date of the
\* processed batch, every record in exactly the report of its date, in the
\* sorted order, with each report's counts taken over its own records; and
\* send_daily_update takes the reports one by one in ascending date order.
C17_OneReportPerDate ==
    /\ [][(pc = "write" /\ pc' = "send") =>
             ReportsOf(md_paths', processed_papers)]_vars
    /\ [](InSend =>
            /\ Len(queue) = Len(md_paths)
            /\ Range(queue) = Range(md_paths)
            /\ \A i, j \in 1..Len(queue) : i < j => queue[i].date < queue[j].date
            /\ idx \in 1..Len(queue)
            /\ \A i \in 1..Len(queue) : delivered[i] > 0 => i <= idx)
    /\ [][(InSend /\ InSend') => idx' \in {idx, idx + 1}]_vars
    /\ [][(pc = "send" /\ InSend') => idx' = 1]_vars

\* two reports written newest first and sent oldest first, the second one
\* with two records
C17_Witness ==
    /\ pc = "update"
    /\ Len(queue) = 2
    /\ queue # md_paths
    /\ idx = 2
    /\ delivered = <<1, 1>>
    /\ queue[2].total = 2
    /\ queue[2].org = 1

(***************************************************************************)
(* Properties of the error paths of run_daily_update                       *)
(***************************************************************************)

\* C18: when send_daily_update raises, run_daily_update returns normally
\* and main takes the 24-hour sleep, not the 1-hour one; and when
\* run_daily_update raises, no SMTP attempt was made, no email was sent and
\* last_email.txt was not written in that run.
C18_SendFailureConfined ==
    /\ [](send_result = "raised" =>
            /\ run_result = "returned"
            /\ pc \in {"sleep_day", "run"})
    /\ [][(send_result' = "raised" /\ send_result # "raised") =>
            pc' = "sleep_day"]_vars
    /\ [][(send_result = "raised" /\ pc = "sleep_day" /\ pc' = "run") =>
            now' = now + DAY_SLEEP]_vars
    /\ [](run_result = "raised" =>
            /\ pc \in {"sleep_hour", "run"}
            /\ send_result = "none"
            /\ tries = 0
            /\ SeqSum(delivered) = 0
            /\ writes = 0)
    /\ [][(run_result' = "raised" /\ run_result # "raised") =>
            /\ last_email_txt' = last_email_txt
            /\ emailed' = emailed]_vars

\* the fifth attempt for a report failed, send_daily_update raised, and
\* main sleeps 24 hours
C18_Witness ==
    /\ send_result = "raised"
    /\ last_smtp = "fail"
    /\ tries = MAX_RETRIES
    /\ run_result = "returned"
    /\ pc = "sleep_day"
====
